---- MODULE Spec2Model ----
(***************************************************************************)
(* A model of the client-side state machines of the rizq-ai frontend:      *)
(*   - the axios client of src/lib/api.ts (token storage, the 401          *)
(*     response interceptor and the single-flight token refresh);          *)
(*   - the ApplicationProgressModal component (progress polling);          *)
(*   - the GET handler of the /api/proxy-pdf route;                        *)
(*   - the BulkApplyBar component with its EmailListView child (the        *)
(*     bulk-apply flow: summaries, resumes, email previews, finalize).     *)
(* JavaScript runs each event handler, and the promise continuations it   *)
(* wakes, to completion; every action below is one such run.               *)
(***************************************************************************)
EXTENDS Integers, Sequences, FiniteSets, TLC

Null == "null"

(***************************************************************************)
(* Bounds of the model.                                                    *)
(***************************************************************************)
\* number of client requests a behaviour issues through `api`
NumRequests == 2
\* number of POST /auth/refresh calls a behaviour may start
MaxRefresh == 2
\* number of polling effects (mounts and re-initialisations) of the progress modal
MaxEffects == 3
\* number of getBulkApplicationProgress calls the interval lets overlap
MaxInFlight == 2
\* number of bulkApplyToJobs calls a behaviour may issue
MaxApply == 2
\* number of generateEmailPreview calls a behaviour may issue
MaxGenerate == 2
\* number of edits of email fields (auto-save timers) a behaviour may make
MaxEdits == 2
\* number of those edits in a behaviour that also prepares, sends and removes emails
MaxBarEdits == 1
\* number of requests the proxy-pdf route receives
MaxProxy == 2
\* number of summary and resume generation calls that may await their answer at once
MaxPending == 1
VARIABLES
  \* ---- src/lib/api.ts
  accessToken,      \* module variable accessToken (api.ts:31)
  refreshToken,     \* module variable refreshToken (api.ts:32)
  refreshPromise,   \* module variable refreshPromise (api.ts:33): 0 for null, or the id of the refresh it stands for
  storage,          \* localStorage[TOKEN_STORAGE_KEY]: NoStoredTokens or the persisted StoredTokens
  isBrowser,        \* api.ts:35
  refreshes,        \* the POST /auth/refresh calls issued through authApi, by id
  reqs              \* the requests issued through `api`, by id

authVars == <<accessToken, refreshToken, refreshPromise, storage, isBrowser, refreshes, reqs>>

VARIABLES
  \* ---- JobSelectionContext and the BulkApplyBar state the progress modal hangs on
  selectedJobs,       \* JobSelectionContext: useState<Set<string>>
  showBulkModal,      \* BulkApplyBar: useState(false)
  applying,           \* BulkApplyBar: useState(false)
  showProgressModal,  \* BulkApplyBar: useState(false)
  progressId,         \* BulkApplyBar: useState<string | null>(null)
  applyCalls,         \* the bulkApplyToJobs calls: <<issued so far, awaiting their response>>
  \* ---- ApplicationProgressModal
  progress,           \* useState({total, processed, ..., isComplete})
  completionHandled,  \* completionHandledRef.current
  effectGen,          \* number of polling effects started so far
  liveGen,            \* the effect whose isMounted is true (0: none)
  intervalOn,         \* the live effect's setInterval is armed
  pollsInFlight,      \* getBulkApplicationProgress calls awaiting a response, per effect
  completeTimers,     \* pending setTimeout(..., 500) callbacks that call onComplete
  onCompleteCalls,    \* calls of onComplete made by the modal instance mounted last
  lastPoll            \* the successful poll answer the mounted modal handled last, and whether a
                      \* failed one followed it

selVars == <<selectedJobs, showBulkModal, applying, showProgressModal, progressId, applyCalls>>
renderVars == <<progress, completionHandled, effectGen, liveGen, intervalOn, pollsInFlight,
                lastPoll>>
modalVars == <<renderVars, completeTimers, onCompleteCalls>>

VARIABLES
  \* ---- BulkApplyBar (bulk modal) and its EmailListView child
  jobs,               \* the jobs prop: the ids of the jobs the page lists
  activeTab,          \* useState<'summaries' | 'resumes' | 'emails'>
  summaries,          \* useState<Map<string, SummaryState>>
  resumes,            \* useState<Map<string, ResumeState>>
  sumReqs,            \* jobs with a generateProfessionalSummary call awaiting its response
  resReqs,            \* jobs with a generateBatchResumes call awaiting its response
  emailPreview,       \* useState<EmailPreview[]>
  isGeneratingEmails, \* useState(false)
  emailProgressId,    \* useState<string | null>: 0 for null, or the id the backend issued
  gen,                \* the running handleGenerateEmails / pollForEmails chain
  genCount,           \* number of generateEmailPreview calls issued so far
  showEmailSuccessModal, \* useState(false)
  editingStates,      \* EmailListView: useState<Map<number, {subject, body}>>
  saveTimeouts,       \* EmailListView: useState<Map<number, Timeout>>: 0 or a timer id
  timers,             \* the setTimeout(..., 1000) auto-save timers created so far, by id
  updateReqs,         \* updateEmail calls awaiting their response
  finalizeReq,        \* the finalizeEmails call awaiting its response
  toast,              \* the toast handleFinalizeEmails raised in the last step ("": none)
  previewPid          \* history: the progress id whose preview emailPreview shows (0: none)

listVars == <<editingStates, saveTimeouts>>
barRest == <<jobs, activeTab, summaries, resumes, sumReqs, resReqs, emailPreview,
             isGeneratingEmails, emailProgressId, gen, genCount, showEmailSuccessModal,
             timers, updateReqs, finalizeReq, previewPid>>
barVars == <<barRest, listVars, toast>>

uiVars == <<selVars, modalVars, barVars>>

VARIABLES
  \* ---- app/api/proxy-pdf/route.ts
  proxy               \* the GET requests the route has received, by id

vars == <<authVars, uiVars, proxy>>

(***************************************************************************)
(* src/lib/api.ts                                                          *)
(***************************************************************************)
\* bearer tokens and refresh tokens the backend issues (non-empty strings)
AccessTokens == {"a1", "a2"}
RefreshTokens == {"r1"}

Requests == 1..NumRequests
RefreshIds == 1..MaxRefresh

\* request URLs, as sequences of path segments
Urls == { <<"auth", "me">>, <<"auth", "login">>, <<"auth", "register">>,
          <<"auth", "refresh">> }

\* String.prototype.includes on a path: pat occurs as a contiguous part of url
Includes(url, pat) ==
  \E i \in 1..Len(url) :
    /\ i + Len(pat) - 1 <= Len(url)
    /\ SubSeq(url, i, i + Len(pat) - 1) = pat

\* an interceptor that takes no URL for an auth endpoint
isAuthEndpointNever(url) == FALSE
\* api.ts:189-192
isAuthEndpoint(url) ==
  \/ Includes(url, <<"auth", "login">>)
  \/ Includes(url, <<"auth", "register">>)
  \/ Includes(url, <<"auth", "refresh">>)

\* what an HTTP exchange of a request can end with: a status, or no response at all
Statuses == {200, 401, 500}

IdleReq == [st |-> "idle", url |-> <<>>, retry |-> FALSE, header |-> Null,
            waitedOn |-> 0, err |-> 0, resent |-> FALSE]

UnusedRefresh == [st |-> "unused", sent |-> Null, token |-> Null]

\* localStorage without the item TOKEN_STORAGE_KEY
NoStoredTokens == [present |-> FALSE, accessToken |-> Null, refreshToken |-> Null]

\* persistTokens (api.ts:40-47): the value localStorage holds afterwards
persistTokens(tokens) == IF isBrowser THEN tokens ELSE storage

\* the refreshes whose POST has been sent and not yet answered
RefreshInFlight == {i \in RefreshIds : refreshes[i].st = "inflight"}

\* the smallest refresh id not used yet (0 when the bound is exhausted)
NextRefreshId ==
  IF \E i \in RefreshIds : refreshes[i].st = "unused"
  THEN CHOOSE i \in RefreshIds :
         /\ refreshes[i].st = "unused"
         /\ \A k \in RefreshIds : refreshes[k].st = "unused" => i <= k
  ELSE 0

\* attachAuthHeader (api.ts:158-166): the Authorization header after the call
attachAuthHeader(header, token) == IF token # Null THEN token ELSE header

AuthInit ==
  /\ accessToken = Null
  /\ refreshToken = Null
  /\ refreshPromise = 0
  /\ storage = NoStoredTokens
  /\ isBrowser \in BOOLEAN
  /\ refreshes = [i \in RefreshIds |-> UnusedRefresh]
  /\ reqs = [r \in Requests |-> IdleReq]

\* setAuthTokens (api.ts:72-86), called by the sign-in code with a fresh token pair
setAuthTokens(t, rt) ==
  /\ accessToken' = t
  /\ refreshToken' = rt
  /\ storage' = persistTokens([present |-> TRUE, accessToken |-> t, refreshToken |-> rt])

\* a clearAuthTokens that forgets the refresh token
clearAuthTokensKeepsRefresh ==
  /\ accessToken' = Null
  /\ refreshToken' = refreshToken
  /\ storage' = persistTokens(NoStoredTokens)

\* clearAuthTokens (api.ts:88-92)
clearAuthTokens ==
  /\ accessToken' = Null
  /\ refreshToken' = Null
  /\ storage' = persistTokens(NoStoredTokens)

SetAuthTokens ==
  /\ UNCHANGED <<uiVars, proxy>>
  /\ \E t \in AccessTokens, rt \in RefreshTokens : setAuthTokens(t, rt)
  /\ UNCHANGED <<refreshPromise, isBrowser, refreshes, reqs>>

ClearAuthTokens ==
  /\ UNCHANGED <<uiVars, proxy>>
  /\ accessToken # Null \/ refreshToken # Null \/ storage.present
  /\ clearAuthTokens
  /\ UNCHANGED <<refreshPromise, isBrowser, refreshes, reqs>>

\* loadAuthTokensFromStorage (api.ts:49-70); expired: the stored item carries an
\* expiresAt that lies before Date.now()
LoadAuthTokensFromStorage ==
  /\ UNCHANGED <<uiVars, proxy>>
  /\ isBrowser
  /\ storage.present
  /\ \E expired \in BOOLEAN :
       IF expired
       THEN /\ storage' = persistTokens(NoStoredTokens)
            /\ accessToken' = Null
            /\ refreshToken' = Null
       ELSE /\ accessToken' = storage.accessToken
            /\ refreshToken' = storage.refreshToken
            /\ UNCHANGED storage
  /\ UNCHANGED <<refreshPromise, isBrowser, refreshes, reqs>>

\* a caller issues a request through `api`; the request interceptor (api.ts:169-172)
\* attaches the Authorization header
SendRequest(r) ==
  /\ UNCHANGED <<uiVars, proxy>>
  /\ reqs[r].st = "idle"
  /\ \A k \in Requests : k < r => reqs[k].st # "idle"
  /\ \E url \in Urls :
       reqs' = [reqs EXCEPT ![r] = [IdleReq EXCEPT !.st = "sent", !.url = url,
                                      !.header = attachAuthHeader(Null, accessToken)]]
  /\ UNCHANGED <<accessToken, refreshToken, refreshPromise, storage, isBrowser, refreshes>>

\* api.ts:176: a 2xx response passes through
RespondOk(r) ==
  /\ UNCHANGED <<uiVars, proxy>>
  /\ reqs[r].st = "sent"
  /\ reqs' = [reqs EXCEPT ![r].st = "ok"]
  /\ UNCHANGED <<accessToken, refreshToken, refreshPromise, storage, isBrowser, refreshes>>

\* api.ts:181-183: an error without a response (network failure) is rejected
RespondNoResponse(r) ==
  /\ UNCHANGED <<uiVars, proxy>>
  /\ reqs[r].st = "sent"
  /\ reqs' = [reqs EXCEPT ![r].st = "rejected", ![r].err = -1]
  /\ UNCHANGED <<accessToken, refreshToken, refreshPromise, storage, isBrowser, refreshes>>

\* the condition without the _retry flag
ShouldRefreshIgnoringRetry(r, status) ==
  /\ status = 401
  /\ ~isAuthEndpoint(reqs[r].url)
  /\ refreshToken # Null
\* api.ts:194: the interceptor's condition for attempting a refresh
ShouldRefresh(r, status) ==
  /\ status = 401
  /\ ~reqs[r].retry
  /\ ~isAuthEndpoint(reqs[r].url)
  /\ refreshToken # Null

\* api.ts:107: ensureAccessTokenRefreshed starts a refresh only when none is pending
\* an ensureAccessTokenRefreshed without the refreshPromise check
NeedNewRefreshAlways == TRUE
NeedNewRefresh == refreshPromise = 0

\* api.ts:177-205 with ensureAccessTokenRefreshed (api.ts:102-137) up to its await:
\* an error response arrives for request r
RespondError(r) ==
  /\ UNCHANGED <<uiVars, proxy>>
  /\ reqs[r].st = "sent"
  /\ \E status \in Statuses \ {200} :
       IF ShouldRefresh(r, status)
       THEN \* _retry = true; await ensureAccessTokenRefreshed()
            IF NeedNewRefresh
            THEN /\ NextRefreshId # 0
                 /\ refreshes' = [refreshes EXCEPT ![NextRefreshId] =
                                    [st |-> "inflight", sent |-> refreshToken, token |-> Null]]
                 /\ refreshPromise' = NextRefreshId
                 /\ reqs' = [reqs EXCEPT ![r].st = "waiting", ![r].retry = TRUE,
                                         ![r].err = status, ![r].waitedOn = NextRefreshId]
            ELSE /\ reqs' = [reqs EXCEPT ![r].st = "waiting", ![r].retry = TRUE,
                                         ![r].err = status, ![r].waitedOn = refreshPromise]
                 /\ UNCHANGED <<refreshes, refreshPromise>>
       ELSE /\ reqs' = [reqs EXCEPT ![r].st = "rejected", ![r].err = status]
            /\ UNCHANGED <<refreshes, refreshPromise>>
  /\ UNCHANGED <<accessToken, refreshToken, storage, isBrowser>>

\* api.ts:137-138 and 198-204: the requests awaiting refresh i resume once its promise
\* settles; each reads accessToken (tok) and is retried with it, or rejected
ResumeWaiters(i, tok) ==
  [r \in Requests |->
     IF reqs[r].st = "waiting" /\ reqs[r].waitedOn = i
     THEN IF tok # Null
          THEN [reqs[r] EXCEPT !.st = "sent", !.resent = TRUE,
                                 !.header = attachAuthHeader(reqs[r].header, tok)]
          ELSE [reqs[r] EXCEPT !.st = "rejected"]
     ELSE reqs[r]]

\* api.ts:114-121: POST /auth/refresh answered with success = true
RefreshSucceeds(i) ==
  /\ UNCHANGED <<uiVars, proxy>>
  /\ refreshes[i].st = "inflight"
  /\ \E t \in AccessTokens, rt \in RefreshTokens :
       /\ setAuthTokens(t, rt)
       /\ refreshes' = [refreshes EXCEPT ![i].st = "ok", ![i].token = t]
       /\ reqs' = ResumeWaiters(i, t)
  /\ refreshPromise' = 0
  /\ UNCHANGED isBrowser

\* api.ts:122-130: POST /auth/refresh throws, or answers without success = true
RefreshFails(i) ==
  /\ UNCHANGED <<uiVars, proxy>>
  /\ refreshes[i].st = "inflight"
  /\ clearAuthTokens
  /\ refreshes' = [refreshes EXCEPT ![i].st = "failed"]
  /\ reqs' = ResumeWaiters(i, accessToken')
  /\ refreshPromise' = 0
  /\ UNCHANGED isBrowser

AuthNext ==
  \/ SetAuthTokens
  \/ ClearAuthTokens
  \/ LoadAuthTokensFromStorage
  \/ \E r \in Requests : SendRequest(r)
  \/ \E r \in Requests : RespondOk(r)
  \/ \E r \in Requests : RespondNoResponse(r)
  \/ \E r \in Requests : RespondError(r)
  \/ \E i \in RefreshIds : RefreshSucceeds(i)
  \/ \E i \in RefreshIds : RefreshFails(i)

(***************************************************************************)
(* JobSelectionContext (unnamed/part_000), the progress-modal part of      *)
(* BulkApplyBar (components/email/EmailReviewModal.tsx:485-1620) and        *)
(* components/application/ApplicationProgressModal.tsx                      *)
(***************************************************************************)
JobIds == {"j1", "j2"}
\* the progress handles the backend issues for POST /workflow/apply
ProgressIds == {"p1", "p2"}

\* EmailReviewModal.tsx:435
MINIMUM_JOBS_REQUIRED == 1

\* a numeric field the response does not carry (undefined)
Missing == -1

\* JavaScript's x || d on a number, and on a string ("undefined": not carried)
OrElse(x, d) == IF x = Missing \/ x = 0 THEN d ELSE x
OrElseStr(x, d) == IF x = "undefined" \/ x = "" THEN d ELSE x
\* the truthiness of a boolean field ("undefined": not carried)
Truthy(b) == b = "true"

\* result.data of GET /workflow/apply/status/:id as the backend may report it
PollData ==
  { [total |-> Missing, processed |-> Missing, successful |-> Missing, failed |-> Missing,
     skipped |-> Missing, status |-> "undefined", isComplete |-> "undefined"],
    [total |-> 2, processed |-> 1, successful |-> 1, failed |-> 0,
     skipped |-> 0, status |-> "Sending", isComplete |-> "false"],
    [total |-> 2, processed |-> 2, successful |-> 1, failed |-> 1,
     skipped |-> 0, status |-> "Done", isComplete |-> "true"],
    [total |-> 0, processed |-> 0, successful |-> 0, failed |-> 0,
     skipped |-> 2, status |-> "Done", isComplete |-> "true"] }

\* ApplicationProgressModal.tsx:32-40
InitialProgress(totalJobs) ==
  [total |-> totalJobs, processed |-> 0, successful |-> 0, failed |-> 0, skipped |-> 0,
   status |-> "Initializing...", isComplete |-> FALSE]

\* ApplicationProgressModal.tsx:56-64: the state setProgress is given
RenderProgress(data, totalJobs) ==
  [total |-> OrElse(data.total, totalJobs),
   processed |-> OrElse(data.processed, 0),
   successful |-> OrElse(data.successful, 0),
   failed |-> OrElse(data.failed, 0),
   skipped |-> OrElse(data.skipped, 0),
   status |-> OrElseStr(data.status, "Processing..."),
   isComplete |-> Truthy(data.isComplete)]

\* lastPoll before any answer was handled
NoPoll == [kind |-> "none", data |-> CHOOSE d \in PollData : d.total = Missing,
           totalJobs |-> 0, gen |-> 0, calls |-> 0, failed |-> FALSE]

\* EmailReviewModal.tsx:1149-1151: BulkApplyBar renders something
BarRenders == selectedJobs # {} \/ showProgressModal \/ showEmailSuccessModal

\* EmailReviewModal.tsx:1206: the bulk modal is on screen
BulkModalShown == BarRenders /\ showBulkModal

\* EmailReviewModal.tsx:1504-1532: the Emails tab shows the EmailListView
ListMounted ==
  BulkModalShown /\ activeTab = "emails" /\ emailPreview # <<>> /\ ~isGeneratingEmails

EmailIdx == 0 .. (Cardinality(JobIds) - 1)
EditIds == 1 .. MaxEdits

\* EmailListView.tsx:39-42: the state of a freshly mounted EmailListView
NoEdit == [has |-> FALSE, subject |-> "", body |-> ""]
NoEdits == [i \in EmailIdx |-> NoEdit]
NoTimeouts == [i \in EmailIdx |-> 0]

\* React keeps the state of EmailListView while it stays mounted and drops it when the
\* render that follows the handler no longer contains it
ListKeep ==
  IF ListMounted'
  THEN UNCHANGED listVars
  ELSE editingStates' = NoEdits /\ saveTimeouts' = NoTimeouts

\* EmailReviewModal.tsx:1602: the progress modal is mounted
ModalMounted == showProgressModal /\ progressId # Null

\* the bulk modal, the progress modal and the success modal each lay a full-screen
\* layer (fixed inset-0, z-50) over the page and the floating bar
\* (EmailReviewModal.tsx:1207, ApplicationProgressModal.tsx:178)
PageCovered == BulkModalShown \/ ModalMounted \/ showEmailSuccessModal

\* totalJobs={selectedJobs.size} (EmailReviewModal.tsx:1605)
totalJobs == Cardinality(selectedJobs)

\* ApplicationProgressModal.tsx:158-162: a polling effect starts: pollProgress() is
\* called at once and the interval is armed
StartEffect ==
  /\ effectGen < MaxEffects
  /\ effectGen' = effectGen + 1
  /\ liveGen' = effectGen + 1
  /\ intervalOn' = TRUE
  /\ pollsInFlight' = [pollsInFlight EXCEPT ![effectGen + 1] = 1]

\* What React does to the modal when BulkApplyBar re-renders with the given values of
\* showProgressModal, progressId and selectedJobs: mount (a new instance, lines 30-40),
\* unmount (the effect's cleanup, lines 164-169) or, when a dependency of the effect
\* changed (line 171), cleanup and a new effect.
ModalRender(show2, pid2, sel2) ==
  LET was == ModalMounted
      will == show2 /\ pid2 # Null
  IN  IF ~was /\ will
      THEN /\ StartEffect
           /\ progress' = InitialProgress(Cardinality(sel2))
           /\ completionHandled' = FALSE
           /\ lastPoll' = NoPoll
      ELSE IF was /\ ~will
      THEN /\ liveGen' = 0
           /\ intervalOn' = FALSE
           /\ progress' = InitialProgress(0)
           /\ completionHandled' = FALSE
           /\ lastPoll' = NoPoll
           /\ UNCHANGED <<effectGen, pollsInFlight>>
      ELSE IF was /\ will /\ (pid2 # progressId \/ Cardinality(sel2) # totalJobs)
      THEN /\ StartEffect
           /\ UNCHANGED <<progress, completionHandled, lastPoll>>
      ELSE UNCHANGED renderVars

ProgressInit ==
  /\ showBulkModal = FALSE
  /\ applying = FALSE
  /\ showProgressModal = FALSE
  /\ progressId = Null
  /\ applyCalls = <<0, 0>>
  /\ progress = InitialProgress(0)
  /\ completionHandled = FALSE
  /\ effectGen = 0
  /\ liveGen = 0
  /\ intervalOn = FALSE
  /\ pollsInFlight = [g \in 1..MaxEffects |-> 0]
  /\ completeTimers = <<>>
  /\ onCompleteCalls = 0
  /\ lastPoll = NoPoll

\* part_000:17-25 toggleJobSelection, from a job's checkbox on the page
toggleJobSelection(jobId) ==
  IF jobId \in selectedJobs THEN selectedJobs \ {jobId} ELSE selectedJobs \cup {jobId}

ToggleJobSelection(j) ==
  /\ UNCHANGED <<authVars, proxy>>
  /\ j \in jobs
  /\ ~PageCovered
  /\ selectedJobs' = toggleJobSelection(j)
  /\ ModalRender(showProgressModal, progressId, selectedJobs')
  /\ UNCHANGED <<showBulkModal, applying, showProgressModal, progressId, applyCalls>>
  /\ UNCHANGED <<completeTimers, onCompleteCalls, barRest>>
  /\ toast' = ""
  /\ ListKeep

\* EmailReviewModal.tsx:1156, 1180-1188: "One-Click Apply to All" on the floating bar
OpenBulkModal ==
  /\ UNCHANGED <<authVars, proxy>>
  /\ selectedJobs # {} /\ ~showProgressModal
  /\ ~PageCovered
  /\ Cardinality(selectedJobs) >= MINIMUM_JOBS_REQUIRED
  /\ ~showBulkModal
  /\ showBulkModal' = TRUE
  /\ UNCHANGED <<selectedJobs, applying, showProgressModal, progressId, applyCalls>>
  /\ UNCHANGED <<modalVars, barRest, listVars>>
  /\ toast' = ""

\* EmailReviewModal.tsx:1007-1033: handleBulkApply up to its await
handleBulkApply ==
  IF selectedJobs = {} \/ Cardinality(selectedJobs) < MINIMUM_JOBS_REQUIRED
  THEN UNCHANGED <<applying, applyCalls>>
  ELSE /\ applyCalls[1] < MaxApply
       /\ applying' = TRUE
       /\ applyCalls' = <<applyCalls[1] + 1, applyCalls[2] + 1>>

\* EmailReviewModal.tsx:1033-1072: the answer to bulkApplyToJobs arrives
BulkApplyRespond ==
  /\ UNCHANGED <<authVars, proxy>>
  /\ applyCalls[2] > 0
  /\ applyCalls' = <<applyCalls[1], applyCalls[2] - 1>>
  /\ applying' = FALSE
  /\ \/ \E p \in ProgressIds :            \* result.success && result.data.progressId
          /\ showBulkModal' = FALSE
          /\ progressId' = p
          /\ showProgressModal' = TRUE
          /\ ModalRender(TRUE, p, selectedJobs)
          /\ onCompleteCalls' = IF ModalMounted THEN onCompleteCalls ELSE 0
     \/ /\ UNCHANGED <<showBulkModal, progressId, showProgressModal>>   \* no success, or a throw
        /\ UNCHANGED <<renderVars, onCompleteCalls>>
  /\ UNCHANGED <<selectedJobs, completeTimers, barRest>>
  /\ toast' = ""
  /\ ListKeep

RECURSIVE SumTo(_, _)
SumTo(f, n) == IF n = 0 THEN 0 ELSE f[n] + SumTo(f, n - 1)
\* the getBulkApplicationProgress calls awaiting their response
PollsAwaited == SumTo(pollsInFlight, MaxEffects)

\* ApplicationProgressModal.tsx:162: the interval fires and pollProgress issues a call
IntervalTick ==
  /\ UNCHANGED <<authVars, proxy>>
  /\ ModalMounted /\ intervalOn /\ liveGen # 0
  /\ PollsAwaited < MaxInFlight
  /\ pollsInFlight' = [pollsInFlight EXCEPT ![liveGen] = @ + 1]
  /\ UNCHANGED <<progress, completionHandled, effectGen, liveGen, intervalOn, lastPoll>>
  /\ UNCHANGED <<completeTimers, onCompleteCalls, selVars, barVars>>

\* ApplicationProgressModal.tsx:66: completion is acted on once per instance
CompletionAlways(data) == Truthy(data.isComplete)
CompletionUnhandled(data) == Truthy(data.isComplete) /\ ~completionHandled

\* ApplicationProgressModal.tsx:52-151: a successful answer reaches a live effect
PollSucceeds(g, data) ==
  /\ progress' = RenderProgress(data, totalJobs)
  /\ lastPoll' = [kind |-> "success", data |-> data, totalJobs |-> totalJobs,
                  gen |-> g, calls |-> onCompleteCalls, failed |-> FALSE]
  /\ IF CompletionUnhandled(data)
     THEN /\ completionHandled' = TRUE
          /\ intervalOn' = FALSE
          /\ completeTimers' = Append(completeTimers,
                 [gen |-> g, successful |-> OrElse(data.successful, 0),
                  failed |-> OrElse(data.failed, 0), skipped |-> OrElse(data.skipped, 0)])
     ELSE UNCHANGED <<completionHandled, intervalOn, completeTimers>>

\* ApplicationProgressModal.tsx:46-156: the answer to one getBulkApplicationProgress
\* call of effect g arrives
PollRespond(g) ==
  /\ UNCHANGED <<authVars, proxy>>
  /\ pollsInFlight[g] > 0
  /\ pollsInFlight' = [pollsInFlight EXCEPT ![g] = @ - 1]
  /\ \/ /\ g # liveGen                    \* line 52: if (!isMounted) return
        /\ UNCHANGED <<progress, completionHandled, intervalOn, completeTimers, lastPoll>>
     \/ /\ g = liveGen
        /\ \/ \E data \in PollData : PollSucceeds(g, data)
           \/ /\ lastPoll' = [lastPoll EXCEPT !.failed = TRUE]     \* success = false, or a throw
              /\ UNCHANGED <<progress, completionHandled, intervalOn, completeTimers>>
  /\ UNCHANGED <<effectGen, liveGen, onCompleteCalls>>
  /\ UNCHANGED <<selVars, barVars>>

\* EmailReviewModal.tsx:1075-1112 handleProgressComplete leaves showProgressModal alone
ShowAfterCompleteClosed == FALSE
ShowAfterComplete == showProgressModal

\* ApplicationProgressModal.tsx:146-150: the 500 ms timer fires; a live effect calls
\* onComplete = handleProgressComplete (EmailReviewModal.tsx:1075-1112), which clears
\* the selection
CompleteTimerFires ==
  /\ UNCHANGED <<authVars, proxy>>
  /\ completeTimers # <<>>
  /\ completeTimers' = Tail(completeTimers)
  /\ IF Head(completeTimers).gen = liveGen
     THEN /\ selectedJobs' = {}                         \* clearSelection()
          /\ showProgressModal' = ShowAfterComplete
          /\ onCompleteCalls' = onCompleteCalls + 1
          /\ ModalRender(ShowAfterComplete, progressId, {})
     ELSE UNCHANGED <<selectedJobs, showProgressModal, onCompleteCalls, renderVars>>
  /\ UNCHANGED <<showBulkModal, applying, progressId, applyCalls>>
  /\ UNCHANGED barRest
  /\ toast' = ""
  /\ ListKeep

\* ApplicationProgressModal.tsx:284: the Close button is rendered
CloseButtonShown == progress.isComplete

\* ApplicationProgressModal.tsx:284-288 and EmailReviewModal.tsx:1114-1119: Close is
\* clicked and handleModalClose runs
handleModalClose ==
  /\ UNCHANGED <<authVars, proxy>>
  /\ ModalMounted
  /\ CloseButtonShown
  /\ showProgressModal' = FALSE
  /\ progressId' = Null
  /\ ModalRender(FALSE, Null, selectedJobs)
  /\ UNCHANGED <<selectedJobs, showBulkModal, applying, applyCalls>>
  /\ UNCHANGED <<completeTimers, onCompleteCalls, barRest>>
  /\ toast' = ""
  /\ ListKeep

(***************************************************************************)
(* BulkApplyBar: the bulk modal (components/email/EmailReviewModal.tsx:      *)
(* 485-1620) and its EmailListView child (components/jobs/EmailListView.tsx) *)
(* The two "Generate All" buttons run the per-job updates modelled below     *)
(* under the flags isGeneratingAll / isGeneratingAllResumes and are not      *)
(* modelled; both flags are therefore false throughout.                      *)
(***************************************************************************)
\* Array.from(selectedJobs) lists the jobs in this order
JobOrder == <<"j1", "j2">>

\* EmailReviewModal.tsx:804
maxAttempts == 60

\* the texts a user types into a summary, and into the subject and body of an email
SummaryTexts == {"", " ", "s"}
SubjectTexts == {"x"}
BodyTexts == {"x"}

\* String.prototype.trim on the texts of the model
Trim(str) == IF str = " " THEN "" ELSE str

\* an absent entry of the summaries / resumes map reads like an entry with an empty
\* text: every read goes through summaryState && summaryState.summary or
\* resumeState?.pdfDownloadUrl
NoSummary == [summary |-> "", isGenerating |-> FALSE]
NoResume == [pdfDownloadUrl |-> "", isGenerating |-> FALSE]

GenIdle == [phase |-> "idle", pid |-> 0, attempts |-> 0, jobIds |-> {}]
NoFinalize == [active |-> FALSE, pid |-> 0, jobIds |-> <<>>]
NoTimer == [st |-> "unused", idx |-> 0, subject |-> "", body |-> "", pid |-> 0]

BarInit ==
  /\ activeTab = "summaries"
  /\ summaries = [j \in JobIds |-> NoSummary]
  /\ resumes = [j \in JobIds |-> NoResume]
  /\ sumReqs = {}
  /\ resReqs = {}
  /\ emailPreview = <<>>
  /\ isGeneratingEmails = FALSE
  /\ emailProgressId = 0
  /\ gen = GenIdle
  /\ genCount = 0
  /\ showEmailSuccessModal = FALSE
  /\ editingStates = NoEdits
  /\ saveTimeouts = NoTimeouts
  /\ timers = [t \in EditIds |-> NoTimer]
  /\ updateReqs = {}
  /\ finalizeReq = NoFinalize
  /\ toast = ""
  /\ previewPid = 0

\* the home page on its first load: nothing selected yet
ListingPage == jobs = JobIds /\ selectedJobs = {}
\* the details page of job j1, opened with the selection made on the pages visited
\* before (the provider of the selection wraps every page: RootLayout in
\* app/api/proxy-pdf/route.ts:113-149)
DetailsPage == jobs = {"j1"} /\ selectedJobs \in SUBSET JobIds

\* EmailReviewModal.tsx:1121
selectedJobsList == jobs \cap selectedJobs

\* EmailReviewModal.tsx:1135-1144
hasSummary(j) == Len(Trim(summaries[j].summary)) > 0
hasResume(j) == Len(Trim(resumes[j].pdfDownloadUrl)) > 0

\* EmailReviewModal.tsx:1133-1145
canGenerateEmails ==
  selectedJobsList # {} /\ \A j \in selectedJobsList : hasSummary(j) /\ hasResume(j)

\* EmailReviewModal.tsx:1191: "Clear" on the floating bar
ClearSelection ==
  /\ UNCHANGED <<authVars, proxy>>
  /\ selectedJobs # {} /\ ~showProgressModal
  /\ ~PageCovered
  /\ selectedJobs' = {}
  /\ ModalRender(showProgressModal, progressId, {})
  /\ UNCHANGED <<showBulkModal, applying, showProgressModal, progressId, applyCalls>>
  /\ UNCHANGED <<completeTimers, onCompleteCalls, barRest>>
  /\ toast' = ""
  /\ ListKeep

\* EmailReviewModal.tsx:1217-1224: the X of the bulk modal
CloseBulkModal ==
  /\ UNCHANGED <<authVars, proxy>>
  /\ BulkModalShown
  /\ ~applying
  /\ showBulkModal' = FALSE
  /\ UNCHANGED <<selectedJobs, applying, showProgressModal, progressId, applyCalls>>
  /\ UNCHANGED <<modalVars, barRest>>
  /\ toast' = ""
  /\ ListKeep

\* EmailReviewModal.tsx:1270-1275: a tab is chosen
SetActiveTab(t) ==
  /\ UNCHANGED <<authVars, proxy>>
  /\ BulkModalShown
  /\ t # activeTab
  /\ activeTab' = t
  /\ UNCHANGED <<jobs, summaries, resumes, sumReqs, resReqs, emailPreview,
                 isGeneratingEmails, emailProgressId, gen, genCount, showEmailSuccessModal,
                 timers, updateReqs, finalizeReq, previewPid>>
  /\ toast' = ""
  /\ UNCHANGED <<selVars, modalVars>>
  /\ ListKeep

\* EmailReviewModal.tsx:525-531, 1343-1355: handleGenerateSummary up to its await
GenerateSummary(j) ==
  /\ UNCHANGED <<authVars, proxy>>
  /\ BulkModalShown /\ activeTab = "summaries"
  /\ j \in selectedJobsList
  /\ ~summaries[j].isGenerating
  /\ j \notin sumReqs
  /\ Cardinality(sumReqs) + Cardinality(resReqs) < MaxPending
  /\ summaries' = [summaries EXCEPT ![j] = [summary |-> "", isGenerating |-> TRUE]]
  /\ sumReqs' = sumReqs \cup {j}
  /\ UNCHANGED <<jobs, activeTab, resumes, resReqs, emailPreview,
                 isGeneratingEmails, emailProgressId, gen, genCount, showEmailSuccessModal,
                 timers, updateReqs, finalizeReq, previewPid>>
  /\ toast' = ""
  /\ UNCHANGED <<selVars, modalVars, listVars>>

\* EmailReviewModal.tsx:533-560: generateProfessionalSummary answers, or throws
SummaryRespond(j) ==
  /\ UNCHANGED <<authVars, proxy>>
  /\ j \in sumReqs
  /\ sumReqs' = sumReqs \ {j}
  /\ \/ summaries' = [summaries EXCEPT ![j] = [summary |-> "s", isGenerating |-> FALSE]]
     \/ summaries' = [summaries EXCEPT ![j] = NoSummary]             \* catch: delete
  /\ UNCHANGED <<jobs, activeTab, resumes, resReqs, emailPreview,
                 isGeneratingEmails, emailProgressId, gen, genCount, showEmailSuccessModal,
                 timers, updateReqs, finalizeReq, previewPid>>
  /\ toast' = ""
  /\ UNCHANGED <<selVars, modalVars, listVars>>

\* EmailReviewModal.tsx:564-575, 1373-1379: handleSummaryChange from the textarea
SummaryChange(j, text) ==
  /\ UNCHANGED <<authVars, proxy>>
  /\ BulkModalShown /\ activeTab = "summaries"
  /\ j \in selectedJobsList
  /\ ~summaries[j].isGenerating
  /\ text # summaries[j].summary
  /\ summaries' = [summaries EXCEPT ![j] = [summary |-> text, isGenerating |-> FALSE]]
  /\ UNCHANGED <<jobs, activeTab, resumes, sumReqs, resReqs, emailPreview,
                 isGeneratingEmails, emailProgressId, gen, genCount, showEmailSuccessModal,
                 timers, updateReqs, finalizeReq, previewPid>>
  /\ toast' = ""
  /\ UNCHANGED <<selVars, modalVars, listVars>>

\* EmailReviewModal.tsx:605-625, 1432-1436: handleGenerateResume up to its await
GenerateResume(j) ==
  /\ UNCHANGED <<authVars, proxy>>
  /\ BulkModalShown /\ activeTab = "resumes"
  /\ j \in selectedJobsList
  /\ ~resumes[j].isGenerating
  /\ j \notin resReqs
  /\ Cardinality(sumReqs) + Cardinality(resReqs) < MaxPending
  /\ IF summaries[j].summary = ""
     THEN UNCHANGED <<resumes, resReqs>>                             \* 'Summary Required'
     ELSE /\ resumes' = [resumes EXCEPT ![j] = [pdfDownloadUrl |-> "", isGenerating |-> TRUE]]
          /\ resReqs' = resReqs \cup {j}
  /\ UNCHANGED <<jobs, activeTab, summaries, sumReqs, emailPreview,
                 isGeneratingEmails, emailProgressId, gen, genCount, showEmailSuccessModal,
                 timers, updateReqs, finalizeReq, previewPid>>
  /\ toast' = ""
  /\ UNCHANGED <<selVars, modalVars, listVars>>

\* EmailReviewModal.tsx:627-675: generateBatchResumes answers, or throws
ResumeRespond(j) ==
  /\ UNCHANGED <<authVars, proxy>>
  /\ j \in resReqs
  /\ resReqs' = resReqs \ {j}
  /\ \/ \E url \in {"u", ""} :                       \* resume.pdfDownloadUrl || ''; catch
          resumes' = [resumes EXCEPT ![j] = [pdfDownloadUrl |-> url, isGenerating |-> FALSE]]
     \/ UNCHANGED resumes                            \* success = false or no resumes
  /\ UNCHANGED <<jobs, activeTab, summaries, sumReqs, emailPreview,
                 isGeneratingEmails, emailProgressId, gen, genCount, showEmailSuccessModal,
                 timers, updateReqs, finalizeReq, previewPid>>
  /\ toast' = ""
  /\ UNCHANGED <<selVars, modalVars, listVars>>

\* EmailReviewModal.tsx:1505: the Emails tab offers "Generate Emails"
GenerateButtonShown ==
  BulkModalShown /\ activeTab = "emails" /\ emailPreview = <<>> /\ ~isGeneratingEmails

\* EmailReviewModal.tsx:780-797, 1509-1512: "Generate Emails" is clicked and
\* handleGenerateEmails runs up to its await
ClickGenerateEmails ==
  /\ UNCHANGED <<authVars, proxy>>
  /\ GenerateButtonShown
  /\ ~isGeneratingEmails /\ canGenerateEmails
  /\ genCount < MaxGenerate
  /\ IF selectedJobs = {}
     THEN UNCHANGED <<isGeneratingEmails, gen, genCount>>
     ELSE /\ isGeneratingEmails' = TRUE
          /\ gen' = [phase |-> "requesting", pid |-> 0, attempts |-> 0, jobIds |-> selectedJobs]
          /\ genCount' = genCount + 1
  /\ UNCHANGED <<jobs, activeTab, summaries, resumes, sumReqs, resReqs, emailPreview,
                 emailProgressId, showEmailSuccessModal,
                 timers, updateReqs, finalizeReq, previewPid>>
  /\ toast' = ""
  /\ UNCHANGED <<selVars, modalVars>>
  /\ ListKeep

\* EmailReviewModal.tsx:797-799, 841-854: generateEmailPreview answers; the backend
\* names the batch by a new progress id (here: the ordinal of the call)
GenerateRespond ==
  /\ UNCHANGED <<authVars, proxy>>
  /\ gen.phase = "requesting"
  /\ \/ /\ emailProgressId' = genCount
        /\ gen' = [gen EXCEPT !.phase = "waiting", !.pid = genCount]
        /\ UNCHANGED isGeneratingEmails
     \/ /\ isGeneratingEmails' = FALSE              \* no progressId, or a throw
        /\ gen' = GenIdle
        /\ UNCHANGED emailProgressId
  /\ UNCHANGED <<jobs, activeTab, summaries, resumes, sumReqs, resReqs, emailPreview,
                 genCount, showEmailSuccessModal,
                 timers, updateReqs, finalizeReq, previewPid>>
  /\ toast' = ""
  /\ UNCHANGED <<selVars, modalVars>>
  /\ ListKeep

\* EmailReviewModal.tsx:806-808, 831, 840: the poll timer fires and pollForEmails
\* issues getEmailPreview
PollTimerFires ==
  /\ UNCHANGED <<authVars, proxy>>
  /\ gen.phase = "waiting"
  /\ gen' = [gen EXCEPT !.phase = "polling"]
  /\ UNCHANGED <<jobs, activeTab, summaries, resumes, sumReqs, resReqs, emailPreview,
                 isGeneratingEmails, emailProgressId, genCount, showEmailSuccessModal,
                 timers, updateReqs, finalizeReq, previewPid>>
  /\ toast' = ""
  /\ UNCHANGED <<selVars, modalVars, listVars>>

\* the previews the backend generated for a batch: one email per job, flagged when
\* the recipient address is a guess
Emails(ids, placeholders) ==
  LET js == SelectSeq(JobOrder, LAMBDA j : j \in ids)
  IN  [k \in 1..Len(js) |->
         [emailIndex |-> k - 1, jobId |-> js[k], subject |-> "g", body |-> "g",
          isPlaceholder |-> js[k] \in placeholders]]

\* EmailReviewModal.tsx:833: the give-up path ends the loading state
LoadingAfterGiveUpStays == TRUE
LoadingAfterGiveUp == FALSE

\* EmailReviewModal.tsx:808-838: getEmailPreview answers, or throws
PreviewRespond ==
  /\ UNCHANGED <<authVars, proxy>>
  /\ gen.phase = "polling"
  /\ \/ \E placeholders \in {{}, gen.jobIds} :
          /\ emailPreview' = Emails(gen.jobIds, placeholders)
          /\ previewPid' = gen.pid
          /\ activeTab' = "emails"
          /\ isGeneratingEmails' = FALSE
          /\ gen' = GenIdle
     \/ /\ IF gen.attempts + 1 < maxAttempts        \* no emails yet, 404 or another error
           THEN /\ gen' = [gen EXCEPT !.phase = "waiting", !.attempts = @ + 1]
                /\ UNCHANGED isGeneratingEmails
           ELSE /\ gen' = GenIdle
                /\ isGeneratingEmails' = LoadingAfterGiveUp
        /\ UNCHANGED <<emailPreview, previewPid, activeTab>>
  /\ UNCHANGED <<jobs, summaries, resumes, sumReqs, resReqs,
                 emailProgressId, genCount, showEmailSuccessModal,
                 timers, updateReqs, finalizeReq>>
  /\ toast' = ""
  /\ UNCHANGED <<selVars, modalVars>>
  /\ ListKeep

\* the emails of the preview that carry the given emailIndex
WithIndex(idx) == {k \in DOMAIN emailPreview : emailPreview[k].emailIndex = idx}

\* a timer that has fired or was cleared
DoneTimer(st) == [NoTimer EXCEPT !.st = st]

\* EmailListView.tsx:60-111 handleFieldChange: the edit is kept in editingStates, the
\* timer saveTimeouts holds for the email is cleared and a new one is armed; its
\* callback holds the edited texts and the onUpdate of this render, that is
\* handleEmailUpdate with the emailProgressId of this render
FieldChange(idx, field, text) ==
  /\ UNCHANGED <<authVars, proxy>>
  /\ ListMounted
  /\ WithIndex(idx) # {}
  /\ \E t \in EditIds : timers[t].st = "unused"
  /\ LET email == emailPreview[CHOOSE k \in WithIndex(idx) : TRUE]
         current == IF editingStates[idx].has
                    THEN editingStates[idx]
                    ELSE [has |-> TRUE, subject |-> email.subject, body |-> email.body]
         updated == [current EXCEPT ![field] = text]
         t == CHOOSE u \in EditIds :
                timers[u].st = "unused" /\ \A v \in EditIds : timers[v].st = "unused" => u <= v
         existing == saveTimeouts[idx]
     IN  /\ current[field] # text
         /\ editingStates' = [editingStates EXCEPT ![idx] = updated]
         /\ saveTimeouts' = [saveTimeouts EXCEPT ![idx] = t]
         /\ timers' = [u \in EditIds |->
                         IF u = t
                         THEN [st |-> "pending", idx |-> idx, subject |-> updated.subject,
                               body |-> updated.body, pid |-> emailProgressId]
                         ELSE IF u = existing /\ timers[u].st = "pending"
                         THEN DoneTimer("cleared")
                         ELSE timers[u]]
  /\ UNCHANGED <<jobs, activeTab, summaries, resumes, sumReqs, resReqs, emailPreview,
                 isGeneratingEmails, emailProgressId, gen, genCount, showEmailSuccessModal,
                 updateReqs, finalizeReq, previewPid>>
  /\ toast' = ""
  /\ UNCHANGED <<selVars, modalVars>>

\* EmailListView.tsx:87-101 and EmailReviewModal.tsx:862-865: an auto-save timer
\* fires (timers of equal delay fire in the order they were armed) and
\* handleEmailUpdate issues updateEmail unless its emailProgressId is null
SaveTimerFires(t) ==
  /\ UNCHANGED <<authVars, proxy>>
  /\ timers[t].st = "pending"
  /\ \A u \in EditIds : u < t => timers[u].st # "pending"
  /\ timers' = [timers EXCEPT ![t] = DoneTimer("fired")]
  /\ updateReqs' = IF timers[t].pid = 0
                   THEN updateReqs
                   ELSE updateReqs \cup {[pid |-> timers[t].pid, idx |-> timers[t].idx,
                                          subject |-> timers[t].subject, body |-> timers[t].body]}
  /\ UNCHANGED <<jobs, activeTab, summaries, resumes, sumReqs, resReqs, emailPreview,
                 isGeneratingEmails, emailProgressId, gen, genCount, showEmailSuccessModal,
                 finalizeReq, previewPid>>
  /\ toast' = ""
  /\ UNCHANGED <<selVars, modalVars, listVars>>

\* EmailReviewModal.tsx:865-883: updateEmail answers, or throws; a saved edit is
\* copied into the preview, and the placeholder flag is dropped when the edit
\* carried a recipient address
UpdateRespond(u) ==
  /\ UNCHANGED <<authVars, proxy>>
  /\ u \in updateReqs
  /\ updateReqs' = updateReqs \ {u}
  /\ \/ \E verified \in BOOLEAN :
          emailPreview' =
            [k \in DOMAIN emailPreview |->
               IF emailPreview[k].emailIndex = u.idx
               THEN [emailPreview[k] EXCEPT
                       !.subject = u.subject, !.body = u.body,
                       !.isPlaceholder = IF verified THEN FALSE ELSE @]
               ELSE emailPreview[k]]
     \/ UNCHANGED emailPreview
  /\ UNCHANGED <<jobs, activeTab, summaries, resumes, sumReqs, resReqs,
                 isGeneratingEmails, emailProgressId, gen, genCount, showEmailSuccessModal,
                 timers, finalizeReq, previewPid>>
  /\ toast' = ""
  /\ UNCHANGED <<selVars, modalVars, listVars>>

\* EmailListView.tsx:171-187 and EmailReviewModal.tsx:913-939: "Remove" on an
\* unverified email, handleRemoveEmailApplication
RemoveEmail(idx) ==
  /\ UNCHANGED <<authVars, proxy>>
  /\ ListMounted
  /\ \E k \in WithIndex(idx) : emailPreview[k].isPlaceholder
  /\ LET jobId == emailPreview[CHOOSE k \in WithIndex(idx) : TRUE].jobId
     IN  /\ emailPreview' = SelectSeq(emailPreview, LAMBDA e : e.emailIndex # idx)
         /\ resumes' = [resumes EXCEPT ![jobId] = NoResume]
         /\ summaries' = [summaries EXCEPT ![jobId] = NoSummary]
         /\ selectedJobs' = toggleJobSelection(jobId)
  /\ previewPid' = IF emailPreview' = <<>> THEN 0 ELSE previewPid
  /\ ModalRender(showProgressModal, progressId, selectedJobs')
  /\ UNCHANGED <<jobs, activeTab, sumReqs, resReqs,
                 isGeneratingEmails, emailProgressId, gen, genCount, showEmailSuccessModal,
                 timers, updateReqs, finalizeReq>>
  /\ toast' = ""
  /\ UNCHANGED <<showBulkModal, applying, showProgressModal, progressId, applyCalls>>
  /\ UNCHANGED <<completeTimers, onCompleteCalls>>
  /\ ListKeep

\* EmailReviewModal.tsx:1538-1550: "Cancel" in the footer of the bulk modal
CancelBulkModal ==
  /\ UNCHANGED <<authVars, proxy>>
  /\ BulkModalShown
  /\ ~applying /\ ~isGeneratingEmails
  /\ showBulkModal' = FALSE
  /\ emailPreview' = <<>>
  /\ emailProgressId' = 0
  /\ activeTab' = "summaries"
  /\ previewPid' = 0
  /\ UNCHANGED <<jobs, summaries, resumes, sumReqs, resReqs,
                 isGeneratingEmails, gen, genCount, showEmailSuccessModal,
                 timers, updateReqs, finalizeReq>>
  /\ toast' = ""
  /\ UNCHANGED <<selectedJobs, applying, showProgressModal, progressId, applyCalls>>
  /\ UNCHANGED modalVars
  /\ ListKeep

\* EmailReviewModal.tsx:1552-1554: the footer offers "Send All"
SendAllShown == BulkModalShown /\ activeTab = "emails" /\ emailPreview # <<>>
\* EmailReviewModal.tsx:1556
SendAllEnabled == ~applying /\ ~isGeneratingEmails

\* EmailReviewModal.tsx:947-954: the jobs of the preview whose resume has a download URL
resumeDownloads ==
  {emailPreview[k].jobId : k \in {n \in DOMAIN emailPreview :
                                    resumes[emailPreview[n].jobId].pdfDownloadUrl # ""}}

\* EmailReviewModal.tsx:957-958
jobsWithoutResume == {k \in DOMAIN emailPreview : emailPreview[k].jobId \notin resumeDownloads}

\* EmailReviewModal.tsx:957-967: with more than one email every job needs a resume
ResumeCheckSkipped == FALSE
ResumeRequired == Len(emailPreview) > 1 /\ jobsWithoutResume # {}

\* the email indexes with an edit whose auto-save timer is still pending
PendingSaves == {timers[t].idx : t \in {u \in EditIds : timers[u].st = "pending"}}

\* EmailReviewModal.tsx:942-973, 1555-1556: "Send All" is clicked and
\* handleFinalizeEmails runs up to its await
ClickSendAll ==
  /\ UNCHANGED <<authVars, proxy>>
  /\ SendAllShown /\ SendAllEnabled
  /\ IF emailProgressId = 0
     THEN toast' = "" /\ UNCHANGED <<applying, finalizeReq>>
     ELSE IF ResumeRequired
     THEN /\ applying' = FALSE
          /\ toast' = "Resume Required"
          /\ UNCHANGED finalizeReq
     ELSE /\ applying' = TRUE
          /\ finalizeReq' = [active |-> TRUE, pid |-> emailProgressId,
                             jobIds |-> [k \in DOMAIN emailPreview |-> emailPreview[k].jobId]]
          /\ toast' = ""
  /\ UNCHANGED <<jobs, activeTab, summaries, resumes, sumReqs, resReqs, emailPreview,
                 isGeneratingEmails, emailProgressId, gen, genCount, showEmailSuccessModal,
                 timers, updateReqs, previewPid>>
  /\ UNCHANGED <<selectedJobs, showBulkModal, showProgressModal, progressId, applyCalls>>
  /\ UNCHANGED modalVars
  /\ ListKeep

\* EmailReviewModal.tsx:975-1004: finalizeEmails answers, or throws
FinalizeRespond ==
  /\ UNCHANGED <<authVars, proxy>>
  /\ finalizeReq.active
  /\ finalizeReq' = NoFinalize
  /\ applying' = FALSE
  /\ \/ /\ showBulkModal' = FALSE                   \* result.success
        /\ emailPreview' = <<>>
        /\ emailProgressId' = 0
        /\ previewPid' = 0
        /\ selectedJobs' = {}
        /\ showEmailSuccessModal' = TRUE
        /\ toast' = "Applications Sent Successfully"
        /\ ModalRender(showProgressModal, progressId, {})
     \/ /\ toast' \in {"", "Send Failed"}         \* success = false; a throw
        /\ UNCHANGED <<showBulkModal, emailPreview, emailProgressId, previewPid,
                       selectedJobs, showEmailSuccessModal>>
        /\ UNCHANGED renderVars
  /\ UNCHANGED <<jobs, activeTab, summaries, resumes, sumReqs, resReqs,
                 isGeneratingEmails, gen, genCount,
                 timers, updateReqs>>
  /\ UNCHANGED <<showProgressModal, progressId, applyCalls>>
  /\ UNCHANGED <<completeTimers, onCompleteCalls>>
  /\ ListKeep

\* EmailReviewModal.tsx:1611-1617: the success modal is closed
CloseSuccessModal ==
  /\ UNCHANGED <<authVars, proxy>>
  /\ showEmailSuccessModal
  /\ showEmailSuccessModal' = FALSE
  /\ UNCHANGED <<jobs, activeTab, summaries, resumes, sumReqs, resReqs, emailPreview,
                 isGeneratingEmails, emailProgressId, gen, genCount,
                 timers, updateReqs, finalizeReq, previewPid>>
  /\ toast' = ""
  /\ UNCHANGED <<selVars, modalVars>>
  /\ ListKeep

\* EmailReviewModal.tsx:1552-1553, 1572: the footer shows "Confirm & Apply to All"
ConfirmApplyShown == BulkModalShown /\ activeTab = "emails" /\ emailPreview = <<>>

\* EmailReviewModal.tsx:1574-1578 (disabled={true}): the button never accepts a click
ConfirmApplyEnabledWhileIdle == ~applying
ConfirmApplyEnabled == FALSE

\* handleBulkApply is run where its button is rendered
HandleBulkApply ==
  /\ UNCHANGED <<authVars, proxy>>
  /\ ConfirmApplyShown
  /\ handleBulkApply
  /\ UNCHANGED <<selectedJobs, showBulkModal, showProgressModal, progressId>>
  /\ UNCHANGED <<modalVars, barVars>>

\* EmailReviewModal.tsx:1573-1579: a click on "Confirm & Apply to All"
ClickConfirmApply ==
  /\ ConfirmApplyShown
  /\ IF ConfirmApplyEnabled THEN HandleBulkApply ELSE UNCHANGED vars

(***************************************************************************)
(* The GET handler of app/api/proxy-pdf/route.ts (lines 12-107)            *)
(***************************************************************************)
ProxyIds == 1..MaxProxy

\* what searchParams.get returns: the value, or null for a parameter the query lacks
FileIds == {Null, "f1"}
Ids == {Null, "i1"}
BaseUrls == {Null, "http://svc"}

\* the status of the upstream answer; 0: fetch rejects (network error)
UpstreamStatuses == {200, 401, 403, 404, 500, 0}

\* a value inside a template literal: null reads "null"
Stringify(x) == IF x = Null THEN "null" ELSE x

\* route.ts:19
fullUrl(baseUrl, fileId, id) ==
  Stringify(baseUrl) \o "/api/download-pdf?fileId=" \o Stringify(fileId)
    \o "&id=" \o Stringify(id)

\* !str on a string
Falsy(str) == Len(str) = 0

\* fetch rejects a URL that is not absolute before anything is sent
AbsoluteUrl(baseUrl) == baseUrl # Null

NoProxyReq == [st |-> "idle", fileId |-> Null, id |-> Null, baseUrl |-> Null,
               fetched |-> "", status |-> 0, error |-> ""]

ProxyInit == proxy = [r \in ProxyIds |-> NoProxyReq]

\* route.ts:12-53, 96-106: a request arrives and GET runs up to the await of fetch
ProxyGet(r) ==
  /\ UNCHANGED <<authVars, uiVars>>
  /\ proxy[r].st = "idle"
  /\ \A k \in ProxyIds : k < r => proxy[k].st # "idle"
  /\ \E fileId \in FileIds, id \in Ids, baseUrl \in BaseUrls :
       LET url == fullUrl(baseUrl, fileId, id)
           req == [NoProxyReq EXCEPT !.fileId = fileId, !.id = id, !.baseUrl = baseUrl]
       IN  proxy' = [proxy EXCEPT ![r] =
             IF Falsy(url)
             THEN [req EXCEPT !.st = "answered", !.status = 400,
                              !.error = "Missing fullUrl parameter"]
             ELSE IF ~AbsoluteUrl(baseUrl)
             THEN [req EXCEPT !.st = "answered", !.status = 500,
                              !.error = "Internal server error while fetching PDF"]
             ELSE [req EXCEPT !.st = "fetching", !.fetched = url]]

\* route.ts:55-94, 96-106: the upstream service answers, or the fetch rejects
ProxyUpstream(r) ==
  /\ UNCHANGED <<authVars, uiVars>>
  /\ proxy[r].st = "fetching"
  /\ \E status \in UpstreamStatuses :
       proxy' = [proxy EXCEPT ![r] =
         IF status = 0
         THEN [@ EXCEPT !.st = "answered", !.status = 500,
                        !.error = "Internal server error while fetching PDF"]
         ELSE IF status = 200
         THEN [@ EXCEPT !.st = "answered", !.status = 200]
         ELSE IF status = 404
         THEN [@ EXCEPT !.st = "answered", !.status = 404, !.error = "PDF not found"]
         ELSE IF status = 401 \/ status = 403
         THEN [@ EXCEPT !.st = "answered", !.status = 401,
                        !.error = "Authentication failed with external service"]
         ELSE [@ EXCEPT !.st = "answered", !.status = status,
                        !.error = "Failed to fetch PDF from external service"]]

ProxyNext == \E r \in ProxyIds : ProxyGet(r) \/ ProxyUpstream(r)

(***************************************************************************)
(* The specifications                                                      *)
(***************************************************************************)
ProgressNext ==
  \/ \E j \in JobIds : ToggleJobSelection(j)
  \/ ClearSelection
  \/ OpenBulkModal
  \/ CloseBulkModal
  \/ \E t \in {"summaries", "resumes", "emails"} : SetActiveTab(t)
  \/ HandleBulkApply
  \/ BulkApplyRespond
  \/ IntervalTick
  \/ \E g \in 1..MaxEffects : PollRespond(g)
  \/ CompleteTimerFires
  \/ handleModalClose

\* the steps of the bulk modal up to the previews, and the sending
PrepareNext ==
  \/ \E j \in JobIds : ToggleJobSelection(j)
  \/ ClearSelection
  \/ OpenBulkModal
  \/ CloseBulkModal
  \/ \E t \in {"summaries", "resumes", "emails"} : SetActiveTab(t)
  \/ \E j \in JobIds : GenerateSummary(j)
  \/ \E j \in JobIds : SummaryRespond(j)
  \/ \E j \in JobIds : GenerateResume(j)
  \/ \E j \in JobIds : ResumeRespond(j)
  \/ ClickGenerateEmails
  \/ GenerateRespond
  \/ PollTimerFires
  \/ PreviewRespond
  \/ \E idx \in EmailIdx : RemoveEmail(idx)
  \/ CancelBulkModal
  \/ ClickSendAll
  \/ FinalizeRespond
  \/ CloseSuccessModal
  \/ ClickConfirmApply

\* an edit of a preview while the behaviour has edits left
BarFieldChange(idx, field, text) ==
  /\ Cardinality({t \in EditIds : timers[t].st # "unused"}) < MaxBarEdits
  /\ FieldChange(idx, field, text)

\* the edits of the summaries and of the previews
EditNext ==
  \/ \E j \in JobIds, text \in SummaryTexts : SummaryChange(j, text)
  \/ \E idx \in EmailIdx, text \in SubjectTexts : BarFieldChange(idx, "subject", text)
  \/ \E idx \in EmailIdx, text \in BodyTexts : BarFieldChange(idx, "body", text)
  \/ \E t \in EditIds : SaveTimerFires(t)
  \/ \E u \in updateReqs : UpdateRespond(u)

BarNext == PrepareNext \/ EditNext

\* the steps that bring previews on screen, mount and unmount their list, and edit them
EditListNext ==
  \/ OpenBulkModal
  \/ CloseBulkModal
  \/ \E t \in {"summaries", "resumes", "emails"} : SetActiveTab(t)
  \/ \E j \in JobIds, text \in SummaryTexts : SummaryChange(j, text)
  \/ \E j \in JobIds : GenerateResume(j)
  \/ \E j \in JobIds : ResumeRespond(j)
  \/ ClickGenerateEmails
  \/ GenerateRespond
  \/ PollTimerFires
  \/ PreviewRespond
  \/ \E idx \in EmailIdx, text \in SubjectTexts : FieldChange(idx, "subject", text)
  \/ \E idx \in EmailIdx, text \in BodyTexts : FieldChange(idx, "body", text)
  \/ \E t \in EditIds : SaveTimerFires(t)
  \/ \E u \in updateReqs : UpdateRespond(u)

\* the steps of one job's preparation and of the email generation
GenerateNext ==
  \/ \E j \in JobIds : ToggleJobSelection(j)
  \/ OpenBulkModal
  \/ CloseBulkModal
  \/ \E t \in {"summaries", "resumes", "emails"} : SetActiveTab(t)
  \/ \E j \in JobIds, text \in SummaryTexts : SummaryChange(j, text)
  \/ \E j \in JobIds : GenerateResume(j)
  \/ \E j \in JobIds : ResumeRespond(j)
  \/ ClickGenerateEmails
  \/ GenerateRespond
  \/ PollTimerFires
  \/ PreviewRespond
  \/ \E idx \in EmailIdx : RemoveEmail(idx)

\* the application after its first render in a browser or on the server, on the
\* home page
Init == AuthInit /\ ListingPage /\ ProgressInit /\ BarInit /\ ProxyInit

\* the home page in a browser
InitListing == Init /\ isBrowser = TRUE

\* the details page of a job in a browser
InitDetails ==
  AuthInit /\ isBrowser = TRUE /\ DetailsPage /\ ProgressInit /\ BarInit /\ ProxyInit

\* the axios client alone, on the home page
SpecAuth ==
  /\ Init
  /\ [][AuthNext]_vars

\* the progress modal, with handleBulkApply run as a handler
SpecProgress ==
  /\ InitListing
  /\ [][ProgressNext]_vars

\* the proxy-pdf route
SpecProxy ==
  /\ InitListing
  /\ [][ProxyNext]_vars

\* the bulk modal on the details page of a job, as the user can drive it
SpecBar ==
  /\ InitDetails
  /\ [][BarNext]_vars

\* the bulk modal on the home page, the summaries and the previews left as generated
SpecListing ==
  /\ InitListing
  /\ [][PrepareNext]_vars

\* the editing of the previews on the details page of a job
SpecEdit ==
  /\ InitDetails
  /\ [][EditListNext]_vars

\* the email generation on the details page of a job: every request is answered and
\* every timer fires
SpecGenerate ==
  /\ InitDetails
  /\ [][GenerateNext]_vars
  /\ WF_vars(GenerateRespond)
  /\ WF_vars(PollTimerFires)
  /\ WF_vars(PreviewRespond)

(***************************************************************************)
(* Claims about src/lib/api.ts, checked under SpecAuth.                    *)
(***************************************************************************)
\* the requests that awaited refresh i and have resumed
Resumed(i) == {r \in Requests : reqs[r].waitedOn = i /\ reqs[r].st # "waiting"}

\* C1: token refresh is single-flight. At most one POST /auth/refresh is in flight;
\* a request that got a 401 while a refresh was pending waits for that very refresh
\* (the one refreshPromise stands for); and once the refresh has produced a token,
\* every request that waited for it has been retried carrying that token.
C1_SingleFlightRefresh ==
  /\ Cardinality(RefreshInFlight) <= 1
  /\ \A r \in Requests :
       reqs[r].st = "waiting" =>
         /\ refreshPromise = reqs[r].waitedOn
         /\ reqs[r].waitedOn \in RefreshInFlight
  /\ \A i \in RefreshIds : \A r \in Resumed(i) :
       refreshes[i].st = "ok" =>
         /\ reqs[r].resent
         /\ reqs[r].header = refreshes[i].token

\* C1 witness: two requests shared one refresh and both were retried with its token
C1_Witness ==
  \E i \in RefreshIds : \E r1, r2 \in Resumed(i) :
    /\ r1 # r2
    /\ refreshes[i].st = "ok"
    /\ reqs[r1].resent /\ reqs[r2].resent
    /\ reqs[r1].header = refreshes[i].token
    /\ reqs[r2].header = refreshes[i].token

\* C10: when a token refresh fails (the POST throws or answers without success =
\* true), that very step clears the access token and the refresh token in memory
\* and in localStorage and resets refreshPromise to null, and every request that
\* awaited the refresh is rejected with its original 401 error without a retry.
C10_RefreshFailureClears ==
  [][\A i \in RefreshIds :
       (refreshes[i].st = "inflight" /\ refreshes'[i].st = "failed") =>
         /\ accessToken' = Null
         /\ refreshToken' = Null
         /\ ~storage'.present
         /\ refreshPromise' = 0
         /\ \A r \in Requests :
              (reqs[r].st = "waiting" /\ reqs[r].waitedOn = i) =>
                /\ reqs'[r].st = "rejected"
                /\ reqs'[r].err = 401
                /\ ~reqs'[r].resent]_vars

\* C10 witness: a refresh has failed in the browser, with tokens persisted before
\* it, and the request that triggered it stands rejected with its 401, not retried
C10_Witness ==
  \E i \in RefreshIds : \E r \in Resumed(i) :
    /\ refreshes[i].st = "failed"
    /\ isBrowser
    /\ reqs[r].st = "rejected" /\ reqs[r].err = 401 /\ ~reqs[r].resent
    /\ accessToken = Null /\ refreshToken = Null /\ ~storage.present
(***************************************************************************)
(* The progress modal (SpecProgress)                                       *)
(***************************************************************************)
\* C6: one mounted ApplicationProgressModal invokes onComplete at most once, also
\* when overlapping poll answers report isComplete and when the polling effect is
\* started again because progressId or totalJobs changed.
C6_OnCompleteAtMostOnce == onCompleteCalls <= 1

\* C6 witness: onComplete was called, the effect was started again afterwards, the
\* new effect handled an answer with isComplete = true and armed no further timer.
C6_Witness ==
  /\ ModalMounted
  /\ onCompleteCalls = 1
  /\ lastPoll.kind = "success" /\ Truthy(lastPoll.data.isComplete)
  /\ lastPoll.calls = 1 /\ lastPoll.gen > 1
  /\ completeTimers = <<>>

\* C7: showProgressModal goes from true to false only in handleModalClose, which the
\* Close button offers only while the displayed progress is complete; a run of
\* handleProgressComplete clears the selection and leaves the modal open.
C7_ClosedOnlyByUser ==
  [][ /\ (showProgressModal /\ ~showProgressModal')
         => (progress.isComplete /\ progressId # Null /\ progressId' = Null)
      /\ (onCompleteCalls' = onCompleteCalls + 1)
         => (showProgressModal' /\ showProgressModal /\ selectedJobs' = {}) ]_vars

\* C7 witness: a modal was shown, reported completion through onComplete, and was
\* then closed by the user.
C7_Witness ==
  /\ applyCalls[1] > 0
  /\ onCompleteCalls = 1
  /\ ~showProgressModal /\ progressId = Null
  /\ selectedJobs = {}

\* what the claim C8 says the modal displays after a successful answer: the values
\* of the answer, and the defaults for the values the answer does not carry
Reported(data, total) ==
  [total |-> IF data.total = Missing THEN total ELSE data.total,
   processed |-> IF data.processed = Missing THEN 0 ELSE data.processed,
   successful |-> IF data.successful = Missing THEN 0 ELSE data.successful,
   failed |-> IF data.failed = Missing THEN 0 ELSE data.failed,
   skipped |-> IF data.skipped = Missing THEN 0 ELSE data.skipped,
   status |-> IF data.status = "undefined" THEN "Processing..." ELSE data.status,
   isComplete |-> IF data.isComplete = "undefined" THEN FALSE ELSE data.isComplete = "true"]

\* C8: after each successful poll answer the displayed progress equals the values
\* of that answer (values the answer lacks default to 0, false, 'Processing...' and
\* totalJobs), and failed polls leave it unchanged.
C8_RendersBackendState ==
  (ModalMounted /\ lastPoll.kind = "success")
    => progress = Reported(lastPoll.data, lastPoll.totalJobs)

(***************************************************************************)
(* The bulk modal (SpecBar, SpecListing) and the proxy route (SpecProxy)   *)
(***************************************************************************)
\* a step that issues finalizeEmails
FinalizeIssued == finalizeReq'.active /\ ~finalizeReq.active

\* C2: while emailPreview is empty or emailProgressId is null no step issues
\* bulkApplyToJobs or finalizeEmails, and finalizeEmails carries the progress id of
\* the generateEmailPreview call whose previews are displayed, with their jobs.
C2_SendOnlyDisplayedPreviews ==
  [][ /\ (emailPreview = <<>> \/ emailProgressId = 0)
         => (applyCalls' = applyCalls /\ ~FinalizeIssued)
      /\ FinalizeIssued
         => /\ previewPid # 0
            /\ finalizeReq'.pid = previewPid
            /\ finalizeReq'.jobIds = [k \in DOMAIN emailPreview |-> emailPreview[k].jobId]
    ]_vars

\* C2 witness: the previews of the second generateEmailPreview call are on screen
\* and finalizeEmails was issued for them.
C2_Witness ==
  /\ finalizeReq.active
  /\ finalizeReq.pid = 2
  /\ previewPid = 2
  /\ emailPreview # <<>>

\* C3: generateEmailPreview is issued only when every selected job (every job whose
\* id is sent) has a non-blank summary and a resume with a non-blank pdfDownloadUrl.
C3_GenerateOnlyWhenReady ==
  [][ (genCount' = genCount + 1)
        => \A j \in gen'.jobIds : hasSummary(j) /\ hasResume(j) ]_vars

\* C4: finalizeEmails is issued for two or more emails only when every email's job
\* has a resume with a download URL; otherwise the click sends nothing, raises the
\* 'Resume Required' error and leaves applying false.
C4_ResumeForEachEmail ==
  [][ /\ FinalizeIssued => (Len(emailPreview) <= 1 \/ jobsWithoutResume = {})
      /\ (toast' = "Resume Required")
         => /\ Len(emailPreview) > 1 /\ jobsWithoutResume # {}
            /\ finalizeReq' = finalizeReq /\ ~finalizeReq.active
            /\ ~applying' ]_vars

\* C4 witness: Send All was clicked with two emails, one of a job without a resume:
\* the error is on screen, nothing is in flight and applying is false.
C4_Witness ==
  /\ toast = "Resume Required"
  /\ Len(emailPreview) = 2
  /\ jobsWithoutResume # {}
  /\ ~finalizeReq.active /\ ~applying

\* C5: when finalizeEmails is issued no edit is still waiting for its auto-save
\* timer: every edit made before was handed to updateEmail.
C5_EditsSavedBeforeFinalize ==
  [][ FinalizeIssued => PendingSaves = {} ]_vars

\* C9: a request that lacks fileId, id or baseUrl is answered with 400 and an error
\* body, and no fetch is issued for it.
C9_MissingParameterIs400 ==
  \A r \in ProxyIds :
    (/\ proxy[r].st # "idle"
     /\ (proxy[r].fileId = Null \/ proxy[r].id = Null \/ proxy[r].baseUrl = Null))
      => (/\ proxy[r].st = "answered"
          /\ proxy[r].status = 400
          /\ proxy[r].error # ""
          /\ proxy[r].fetched = "")

(***************************************************************************)
(* The response interceptor of src/lib/api.ts (SpecAuth)                   *)
(***************************************************************************)
\* a step in which some POST /auth/refresh is issued
RefreshIssued == \E i \in RefreshIds : refreshes[i].st = "unused" /\ refreshes'[i].st # "unused"

\* C11: a request is retried at most once after a 401: a request that was already
\* retried is never made to await a refresh again nor sent again, and the step that
\* ends its retry resolves or rejects it without issuing a refresh.
C11_RetriedAtMostOnce ==
  [][ \A r \in Requests :
        /\ (reqs[r].st # "waiting" /\ reqs'[r].st = "waiting")
             => (~reqs[r].retry /\ ~reqs[r].resent)
        /\ (reqs[r].st = "waiting" /\ reqs'[r].st = "sent") => ~reqs[r].resent
        /\ (reqs[r].resent /\ reqs[r].st = "sent" /\ reqs'[r].st # "sent")
             => /\ reqs'[r].st \in {"ok", "rejected"}
                /\ ~RefreshIssued
                /\ refreshPromise' = refreshPromise
    ]_vars

\* C11 witness: a request was retried after a refresh, got 401 again while a refresh
\* token was held, and stands rejected with no refresh pending.
C11_Witness ==
  \E r \in Requests :
    /\ reqs[r].resent /\ reqs[r].retry
    /\ reqs[r].st = "rejected" /\ reqs[r].err = 401
    /\ refreshToken # Null
    /\ refreshPromise = 0

\* a step in which request r, awaiting its response, gets an error
ErrorArrives(r) == reqs[r].st = "sent" /\ reqs'[r].st \in {"waiting", "rejected"}

\* the URL contains /auth/login, /auth/register or /auth/refresh
NamesAuthEndpoint(url) ==
  \E p \in {<<"auth", "login">>, <<"auth", "register">>, <<"auth", "refresh">>} :
    Includes(url, p)

\* C12: an error response to a request for an auth endpoint, or one that arrives while
\* no refresh token is held, issues no POST /auth/refresh and no retry: the request is
\* rejected with the error it got.  A refresh that fails issues no further refresh.
C12_NoRefreshForAuthEndpoints ==
  [][ /\ \A r \in Requests :
           (ErrorArrives(r) /\ (NamesAuthEndpoint(reqs[r].url) \/ refreshToken = Null))
             => /\ reqs'[r].st = "rejected"
                /\ reqs'[r].err \in (Statuses \ {200}) \cup {-1}
                /\ reqs'[r].resent = reqs[r].resent
                /\ ~RefreshIssued
                /\ refreshPromise' = refreshPromise
      /\ \A i \in RefreshIds :
           (refreshes[i].st = "inflight" /\ refreshes'[i].st # "inflight") => ~RefreshIssued
    ]_vars

\* C12 witness: a request for /auth/refresh sent through `api` was answered 401 while
\* a refresh token was held; it stands rejected, never retried, and no refresh was
\* ever issued.
C12_Witness ==
  \E r \in Requests :
    /\ reqs[r].url = <<"auth", "refresh">>
    /\ reqs[r].st = "rejected" /\ reqs[r].err = 401
    /\ ~reqs[r].retry /\ ~reqs[r].resent
    /\ refreshToken # Null
    /\ \A i \in RefreshIds : refreshes[i].st = "unused"

(***************************************************************************)
(* The email generation (SpecGenerate)                                     *)
(***************************************************************************)
\* the getEmailPreview calls issued so far for the running generation
PreviewCalls == gen.attempts + (IF gen.phase = "polling" THEN 1 ELSE 0)

\* C13: a generation that has started always leaves its loading state, whichever way
\* the requests are answered, and one generation issues at most 60 getEmailPreview
\* calls.
C13_GenerationEnds ==
  /\ [](PreviewCalls <= 60)
  /\ [](isGeneratingEmails <=> gen.phase # "idle")
  /\ (isGeneratingEmails ~> ~isGeneratingEmails)

\* C13 witness: the 60th getEmailPreview call of a generation is awaiting its answer.
C13_Witness ==
  /\ isGeneratingEmails
  /\ gen.phase = "polling"
  /\ PreviewCalls = 60

(***************************************************************************)
(* The auto-save of EmailListView (SpecEdit)                               *)
(***************************************************************************)
\* the auto-save timers pending for the email with the given emailIndex
PendingFor(idx) == {t \in EditIds : timers[t].st = "pending" /\ timers[t].idx = idx}

\* C14: at any time at most one auto-save timer is pending for an emailIndex, so that
\* a burst of edits of one email ends in one onUpdate call.
C14_OneTimerPerEmail == \A idx \in EmailIdx : Cardinality(PendingFor(idx)) <= 1

====
